---- MODULE Spec2Model ----
(***************************************************************************)
(* Password-Strength-Analyzer: the analysis core of main.py (leetspeak     *)
(* normaliser, wordlist matchers, charset/entropy, the three crack-time    *)
(* estimators, the time formatter) and its two callers, the Streamlit page *)
(* app.py and the __main__ block of main.py.                               *)
(*                                                                         *)
(* A Python str is a sequence of one-character strings.  A Python float is *)
(* a decimal floating-point number [m, e] standing for m * 10^e with a     *)
(* bounded mantissa (operations round, as IEEE doubles do); None is  *)
(* a value of its own, and a raised exception is recorded by its type.     *)
(***************************************************************************)
EXTENDS Integers, Sequences, FiniteSets, TLC

VARIABLES
    entry,            \* which program runs: "app" (app.py) or "main" (main.py __main__)
    pc,               \* position of the program
    commonPasswords,  \* the loaded common-password set
    dictionaryWords,  \* the loaded dictionary set
    password,         \* the password string held by the program
    verdict,          \* the classification message shown: "none" until shown
    entropy,          \* result of getEntropy as used by the caller
    classical,        \* classicalCrackTime(entropy)
    quantum,          \* quantumCrackTime(entropy)
    modern,           \* modernCrackTime(password, commonPasswords, dictionaryWords)
    shown,            \* the three formatted crack times shown
    error,            \* the exception that ended the last run, "none" if none
    fmtIn,            \* argument of a direct timeFormat call
    fmtOut            \* its result

vars == <<entry, pc, commonPasswords, dictionaryWords, password, verdict, entropy,
          classical, quantum, modern, shown, error, fmtIn, fmtOut>>

-----------------------------------------------------------------------------
(* Characters and strings *)

LowerSeq == <<"a","b","c","d","e","f","g","h","i","j","k","l","m",
              "n","o","p","q","r","s","t","u","v","w","x","y","z">>
UpperSeq == <<"A","B","C","D","E","F","G","H","I","J","K","L","M",
              "N","O","P","Q","R","S","T","U","V","W","X","Y","Z">>

Range(s) == {s[i] : i \in DOMAIN s}

\* str.islower / [a-z]
LowerChars == Range(LowerSeq)
\* str.isupper / [A-Z]
UpperChars == Range(UpperSeq)
\* str.isdigit / [0-9] / \d
DigitChars == {"0","1","2","3","4","5","6","7","8","9"}
\* the grave accent (U+0060), which the lexer cannot hold in a string literal
Grave == "GRAVE"
\* the special-character string of getCharsetSize
SpecialChars == {"!","@","#","$","%","^","&","*","(",")","-","_","=","+","[","]",
                 "{","}","|",";",":","'","\"",",",".","<",">","?","/",Grave,"~"}
\* the character class [!@#$%^&*] of the suffix regex of modernCrackTime
SuffixSpecialChars == {"!","@","#","$","%","^","&","*"}

\* str.lower on one character
LowerChar(c) ==
    IF c \in UpperChars
    THEN LowerSeq[CHOOSE i \in DOMAIN UpperSeq : UpperSeq[i] = c]
    ELSE c

\* str.lower
Lower(s) == [i \in DOMAIN s |-> LowerChar(s[i])]

\* str.replace(old, new) for one-character old and new
Replace(s, old, new) == [i \in DOMAIN s |-> IF s[i] = old THEN new ELSE s[i]]

\* `word in s` for strings
IsSubstring(word, s) ==
    \E i \in 0..(Len(s) - Len(word)) :
        \A j \in 1..Len(word) : s[i + j] = word[j]

\* every character of s[from..to] is in class
AllIn(s, from, to, class) == \A i \in from..to : s[i] \in class

-----------------------------------------------------------------------------
(* Wordlist loaders *)

\* line.strip().lower() over the lines of the file
loadCommonPasswords(file) == {Lower(line) : line \in file}

\* the same, keeping only lines of length >= 4
loadDictionaryWords(file) == {Lower(line) : line \in {l \in file : Len(l) >= 4}}

-----------------------------------------------------------------------------
(* Leetspeak normaliser *)

SubstitutionsSwapped ==
    <<<<"0","o">>, <<"1","i">>, <<"3","e">>, <<"4","a">>,
      <<"5","s">>, <<"7","t">>, <<"@","a">>, <<"$","5">>>>

\* the substitutions dict, in insertion order
Substitutions ==
    <<<<"0","o">>, <<"1","i">>, <<"3","e">>, <<"4","a">>,
      <<"5","s">>, <<"7","t">>, <<"@","a">>, <<"$","s">>>>

RECURSIVE ReplaceAll(_, _, _)
\* the for loop over substitutions.items(), from entry k on
ReplaceAll(s, table, k) ==
    IF k > Len(table) THEN s
    ELSE ReplaceAll(Replace(s, table[k][1], table[k][2]), table, k + 1)

normalizeLeetspeak(p) == Lower(ReplaceAll(p, Substitutions, 1))

-----------------------------------------------------------------------------
(* Pattern matchers *)

MinWordLen == 4

containsDictionaryWord(p, wordlist) ==
    LET normalized == normalizeLeetspeak(p)
    IN  \E word \in wordlist : Len(word) >= MinWordLen /\ IsSubstring(word, normalized)

isCommonPassword(p, common) == normalizeLeetspeak(p) \in common

-----------------------------------------------------------------------------
(* Charset size *)

LowerWeight == 26
UpperWeight == 26
DigitWeight == 10
SpecialWeight == 32

HasClass(p, class) == \E i \in DOMAIN p : p[i] \in class

getCharsetSizeElif(p) ==
    IF HasClass(p, LowerChars) THEN LowerWeight
    ELSE IF HasClass(p, UpperChars) THEN UpperWeight
    ELSE IF HasClass(p, DigitChars) THEN DigitWeight
    ELSE IF HasClass(p, SpecialChars) THEN SpecialWeight
    ELSE 0

getCharsetSize(p) ==
      (IF HasClass(p, LowerChars) THEN LowerWeight ELSE 0)
    + (IF HasClass(p, UpperChars) THEN UpperWeight ELSE 0)
    + (IF HasClass(p, DigitChars) THEN DigitWeight ELSE 0)
    + (IF HasClass(p, SpecialChars) THEN SpecialWeight ELSE 0)

-----------------------------------------------------------------------------
(* Python values: float, None, a raised exception *)

\* largest mantissa kept plus one: seven significant decimal digits
Mant == 10^7

RECURSIVE Canon(_, _)
\* the float m * 10^e in canonical form (no trailing zero in the mantissa)
Canon(m, e) ==
    IF m = 0 THEN [m |-> 0, e |-> 0]
    ELSE IF m % 10 = 0 THEN Canon(m \div 10, e + 1)
    ELSE [m |-> m, e |-> e]

RECURSIVE Trunc(_, _)
\* m * 10^e rounded to the mantissa width
Trunc(m, e) == IF m >= Mant THEN Trunc((m + 5) \div 10, e + 1) ELSE Canon(m, e)

RECURSIVE Widen(_, _)
\* the same value of m * 10^e, m > 0, with the mantissa at full width
Widen(m, e) == IF m * 10 < Mant THEN Widen(m * 10, e - 1) ELSE [m |-> m, e |-> e]

FromInt(n) == Canon(n, 0)

NoneVal == [none |-> TRUE]
Raise(type) == [raise |-> type]
IsFloat(v) == DOMAIN v = {"m", "e"}
IsRaise(v) == DOMAIN v = {"raise"}

\* 10^k for the k the mantissa width allows
Pow10(k) == 10^k

\* a < b on floats
FLess(a, b) ==
    LET d == a.e - b.e
    IN  IF d >= 0
        THEN IF d > 9 THEN a.m = 0 /\ b.m > 0
             ELSE a.m < (b.m + Pow10(d) - 1) \div Pow10(d)
        ELSE IF -d > 9 THEN b.m > 0
             ELSE (a.m \div Pow10(-d)) < b.m

\* a >= b on floats
FGeq(a, b) == ~FLess(a, b)

\* x * n for a float x and a small integer n
FMulInt(x, n) == Trunc(x.m * n, x.e)

\* x / y on floats, y > 0 with a mantissa of at most three digits: long division,
\* one more digit taken from the remainder when the quotient leaves room for it
FDiv(x, y) ==
    IF x.m = 0 THEN x
    ELSE LET w == Widen(x.m, x.e)
             n == w.m * 100
             q == n \div y.m
             r == n % y.m
         IN  IF r = 0 \/ q >= 10^8 THEN Trunc(q, w.e - 2 - y.e)
             ELSE Trunc(q * 10 + (r * 10) \div y.m, w.e - 3 - y.e)

RECURSIVE FPow(_, _)
\* base ** n by repeated multiplication
FPow(base, n) == IF n = 0 THEN FromInt(1) ELSE FMulInt(FPow(base, n - 1), base)

RECURSIVE IsqrtBetween(_, _, _)
\* floor(sqrt(n)), known to lie in lo..hi-1
IsqrtBetween(n, lo, hi) ==
    IF hi - lo <= 1 THEN lo
    ELSE LET mid == (lo + hi) \div 2
         IN  IF mid * mid <= n THEN IsqrtBetween(n, mid, hi)
             ELSE IsqrtBetween(n, lo, mid)

RECURSIVE SqrtWiden(_, _)
\* m * 10^e, m > 0, with an even exponent and a mantissa of eight or nine digits
SqrtWiden(m, e) ==
    IF e % 2 = 1 THEN SqrtWiden(m * 10, e - 1)
    ELSE IF m < 10^7 THEN SqrtWiden(m * 100, e - 2)
    ELSE [m |-> m, e |-> e]

\* math.sqrt
FSqrt(x) ==
    IF x.m = 0 THEN x
    ELSE LET w == SqrtWiden(x.m, x.e)
         IN  Trunc(IsqrtBetween(w.m, 0, 31623), w.e \div 2)

\* x rounded (half to even) to `decimals` decimal places, as the format spec .Nf does
RoundTo(x, decimals) ==
    IF x.e >= -decimals THEN x
    ELSE LET k == -decimals - x.e
         IN  IF k > 9 THEN FromInt(0)
             ELSE LET q == x.m \div Pow10(k)
                      r == x.m % Pow10(k)
                      up == 2 * r > Pow10(k) \/ (2 * r = Pow10(k) /\ q % 2 = 1)
                  IN  Canon(IF up THEN q + 1 ELSE q, -decimals)

-----------------------------------------------------------------------------
(* Entropy *)

\* getEntropy: the pair (entropy, charsetSize); the entropy len(password) * log2(charsetSize)
\* is held by its two factors.  math.log2(0) raises ValueError.
getEntropy(p) ==
    LET charsetSize == getCharsetSize(p)
    IN  IF charsetSize = 0 THEN Raise("ValueError")
        ELSE [length |-> Len(p), charsetSize |-> charsetSize]

\* 2 ** entropy, which is charsetSize ** length
Pow2Entropy(ent) == FPow(ent.charsetSize, ent.length)

\* the default guessesPerSecond, 1e9
DefaultRate == Canon(1, 9)
\* the guessesPerSecond of the fallback of modernCrackTime, 1e10
ModernRate == Canon(1, 10)

classicalCrackTime(ent, guessesPerSecond) == FDiv(Pow2Entropy(ent), guessesPerSecond)

quantumCrackTime(ent, guessesPerSecond) == FDiv(FSqrt(Pow2Entropy(ent)), guessesPerSecond)

-----------------------------------------------------------------------------
(* Modern crack time *)

\* s ends with the string suffix
EndsWith(s, suffix) ==
    /\ Len(suffix) <= Len(s)
    /\ \A j \in 1..Len(suffix) : s[Len(s) - Len(suffix) + j] = suffix[j]

\* s ends with a run of lo..hi characters of class
EndsWithRun(s, class, lo, hi) ==
    \E k \in lo..hi : k <= Len(s) /\ AllIn(s, Len(s) - k + 1, Len(s), class)

\* re.search(r"(123|[!@#$%^&*]+|[0-9]{1,4})$", s)
SuffixMatch(s) ==
    \/ EndsWith(s, <<"1","2","3">>)
    \/ EndsWithRun(s, SuffixSpecialChars, 1, Len(s))
    \/ EndsWithRun(s, DigitChars, 1, 4)

\* the alternatives of the keyboard/keyword regex
WeakKeywords ==
    { <<"q","w","e","r","t","y">>, <<"a","s","d","f">>, <<"z","x","c","v">>,
      <<"p","a","s","s">>, <<"l","o","v","e">>, <<"g","o","d">>,
      <<"a","d","m","i","n">>, <<"u","s","e","r">> }

\* re.search(r"(qwerty|asdf|zxcv|pass|love|god|admin|user)", s)
WeakKeywordMatch(s) == \E kw \in WeakKeywords : IsSubstring(kw, s)

\* re.search(r"(19[0-9]{2}|20[0-4][0-9])", s)
YearMatch(s) ==
    \E i \in 1..(Len(s) - 3) :
        \/ /\ s[i] = "1" /\ s[i+1] = "9"
           /\ s[i+2] \in DigitChars /\ s[i+3] \in DigitChars
        \/ /\ s[i] = "2" /\ s[i+1] = "0"
           /\ s[i+2] \in {"0","1","2","3","4"} /\ s[i+3] \in DigitChars

\* re.fullmatch(r"[a-z]{4,}\d{2,4}", s)
LettersDigitsMatch(s) ==
    \E k \in 2..4 :
        /\ Len(s) - k >= 4
        /\ AllIn(s, 1, Len(s) - k, LowerChars)
        /\ AllIn(s, Len(s) - k + 1, Len(s), DigitChars)

\* re.fullmatch(r"[a-z]{4,}[A-Z]{1}[a-z]*\d{1,4}", s)
WordWordNumberMatch(s) ==
    \E j \in 5..Len(s) : \E k \in 1..4 :
        /\ j <= Len(s) - k
        /\ AllIn(s, 1, j - 1, LowerChars)
        /\ s[j] \in UpperChars
        /\ AllIn(s, j + 1, Len(s) - k, LowerChars)
        /\ AllIn(s, Len(s) - k + 1, Len(s), DigitChars)

\* the return values of the branches, in seconds
InstantSeconds == Canon(5, -1)
DictSuffixSeconds == 30
DictSeconds == 90
YearSeconds == 45
LettersDigitsSeconds == 60
WordWordNumberSeconds == 120

modernBranchShapesFirst(p, common, dict) ==
    LET normalized == normalizeLeetspeak(p)
    IN  IF normalized \in common THEN 1
        ELSE IF containsDictionaryWord(p, dict) THEN 2
        ELSE IF WeakKeywordMatch(normalized) THEN 3
        ELSE IF LettersDigitsMatch(normalized) THEN 5
        ELSE IF WordWordNumberMatch(p) THEN 6
        ELSE IF YearMatch(p) THEN 4
        ELSE 7

\* the if statement of modernCrackTime whose body returns: 1..6, or 7 for the fallback
modernBranch(p, common, dict) ==
    LET normalized == normalizeLeetspeak(p)
    IN  IF normalized \in common THEN 1
        ELSE IF containsDictionaryWord(p, dict) THEN 2
        ELSE IF WeakKeywordMatch(normalized) THEN 3
        ELSE IF YearMatch(p) THEN 4
        ELSE IF LettersDigitsMatch(normalized) THEN 5
        ELSE IF WordWordNumberMatch(p) THEN 6
        ELSE 7

\* what the returning branch returns: a float, None, or the exception of getEntropy
modernReturn(branch, p) ==
    CASE branch = 1 -> InstantSeconds
      [] branch = 2 -> IF SuffixMatch(p) THEN FromInt(DictSuffixSeconds)
                       ELSE FromInt(DictSeconds)
      [] branch = 3 -> NoneVal
      [] branch = 4 -> FromInt(YearSeconds)
      [] branch = 5 -> FromInt(LettersDigitsSeconds)
      [] branch = 6 -> FromInt(WordWordNumberSeconds)
      [] OTHER -> LET ent == getEntropy(p)
                  IN  IF IsRaise(ent) THEN ent
                      ELSE classicalCrackTime(ent, ModernRate)

modernCrackTime(p, common, dict) == modernReturn(modernBranch(p, common, dict), p)

-----------------------------------------------------------------------------
(* Time formatter *)

units == <<"seconds", "minutes", "hours", "days", "years", "centuries">>
factors == <<60, 60, 24, 365, 100>>

\* the threshold below which the four-decimal form is used
ShortSeconds == 4

RECURSIVE timeFormatLoopStrict(_, _)
timeFormatLoopStrict(seconds, i) ==
    IF i < Len(factors) /\ FLess(FromInt(factors[i + 1]), seconds)
    THEN timeFormatLoopStrict(FDiv(seconds, FromInt(factors[i + 1])), i + 1)
    ELSE [seconds |-> seconds, i |-> i]

RECURSIVE timeFormatLoop(_, _)
\* the while loop of timeFormat from (seconds, i) to its exit
timeFormatLoop(seconds, i) ==
    IF i < Len(factors) /\ FGeq(seconds, FromInt(factors[i + 1]))
    THEN timeFormatLoop(FDiv(seconds, FromInt(factors[i + 1])), i + 1)
    ELSE [seconds |-> seconds, i |-> i]

\* an f-string "{value:.Nf} unit": the number shown, its decimals, the unit
Formatted(value, decimals, unit) ==
    [value |-> RoundTo(value, decimals), decimals |-> decimals, unit |-> unit]

\* timeFormat: None < 4 raises TypeError
timeFormat(seconds) ==
    IF ~IsFloat(seconds) THEN Raise("TypeError")
    ELSE IF FLess(seconds, FromInt(ShortSeconds)) THEN Formatted(seconds, 4, "seconds")
    ELSE LET out == timeFormatLoop(seconds, 0)
         IN  Formatted(out.seconds, 2, units[out.i + 1])

-----------------------------------------------------------------------------
(* Inputs: the wordlist files on disk and the passwords a user can enter *)

\* rockyou.txt: nothing, or three lines (one capitalised, one with digits)
CommonFiles ==
    { {},
      { <<"A","b","c","d">>, <<"w","o","r","d","1","9">>, <<"p","a","s","s">> } }

\* words_alpha.txt: nothing, or a word and a three-letter word
DictFiles ==
    { {},
      { <<"w","o","r","d">>, <<"a","b","c">> } }

\* the pieces passwords are typed from
Tokens ==
    { <<"w","o","r","d">>, <<"w","0","r","d">>, <<"p","a","s","s">>,
      <<"a","b","c","d">>, <<"X">>, <<"1","9">>, <<"2","2">>,
      <<"$">>, <<")">>, <<" ">> }

\* the most pieces in one password
MaxTokens == 3

RECURSIVE PasswordsOf(_)
PasswordsOf(n) ==
    IF n = 0 THEN {<<>>}
    ELSE LET shorter == PasswordsOf(n - 1)
         IN  shorter \cup {p \o t : p \in shorter, t \in Tokens}

Passwords == PasswordsOf(MaxTokens)

\* a variable not assigned yet
Unset == [unset |-> TRUE]

-----------------------------------------------------------------------------
(* The analysis as the two callers run it *)

ClassificationRaw(p, common, dict) ==
    IF p \in common THEN "CommonPassword"
    ELSE IF containsDictionaryWord(p, dict) THEN "ContainsDictionaryWord"
    ELSE "NoObviousPattern"

\* app.py: the st.error / st.warning / st.success chain
Classification(p, common, dict) ==
    IF isCommonPassword(p, common) THEN "CommonPassword"
    ELSE IF containsDictionaryWord(p, dict) THEN "ContainsDictionaryWord"
    ELSE "NoObviousPattern"

\* The body of an analysis: the verdict is shown, then getEntropy may raise, then the
\* three crack times are computed, then formatted one after the other; the first
\* exception ends the run and keeps what was produced before it.
RunAnalysis(p, common, dict, v) ==
    LET ent == getEntropy(p)
    IN  IF IsRaise(ent)
        THEN [verdict |-> v, entropy |-> Unset, classical |-> Unset, quantum |-> Unset,
              modern |-> Unset, shown |-> <<>>, error |-> ent.raise]
        ELSE LET c == classicalCrackTime(ent, DefaultRate)
                 q == quantumCrackTime(ent, DefaultRate)
                 m == modernCrackTime(p, common, dict)
                 fc == timeFormat(c)
                 fq == timeFormat(q)
                 fm == timeFormat(m)
             IN  IF IsRaise(m)
                 THEN [verdict |-> v, entropy |-> ent, classical |-> c, quantum |-> q,
                       modern |-> Unset, shown |-> <<>>, error |-> m.raise]
                 ELSE IF IsRaise(fm)
                 THEN [verdict |-> v, entropy |-> ent, classical |-> c, quantum |-> q,
                       modern |-> m, shown |-> <<fc, fq>>, error |-> fm.raise]
                 ELSE [verdict |-> v, entropy |-> ent, classical |-> c, quantum |-> q,
                       modern |-> m, shown |-> <<fc, fq, fm>>, error |-> "none"]

\* app.py: the block run when the button is clicked and the password is not empty
AppAnalysis(p, common, dict) == RunAnalysis(p, common, dict, Classification(p, common, dict))

\* main.py: the st.error / st.warning / st.success chain of analyze
analyzeVerdict(p, common, dict) ==
    IF isCommonPassword(p, common) THEN "CommonPassword"
    ELSE IF containsDictionaryWord(p, dict) THEN "ContainsDictionaryWord"
    ELSE "NoObviousPattern"

\* main.py: analyze(password, commonPasswords, dictionaryWords, st)
analyze(p, common, dict) == RunAnalysis(p, common, dict, analyzeVerdict(p, common, dict))

NoOutput ==
    /\ verdict' = "none"
    /\ entropy' = Unset
    /\ classical' = Unset
    /\ quantum' = Unset
    /\ modern' = Unset
    /\ shown' = <<>>
    /\ error' = "none"

Init ==
    /\ entry \in {"app", "main"}
    /\ pc = "start"
    /\ commonPasswords = {}
    /\ dictionaryWords = {}
    /\ password = <<>>
    /\ verdict = "none"
    /\ entropy = Unset
    /\ classical = Unset
    /\ quantum = Unset
    /\ modern = Unset
    /\ shown = <<>>
    /\ error = "none"
    /\ fmtIn = FromInt(0)
    /\ fmtOut = Unset

\* app.py: loadLists() on the first run of the page
AppLoadLists ==
    /\ entry = "app"
    /\ pc = "start"
    /\ \E cf \in CommonFiles, df \in DictFiles :
          /\ commonPasswords' = loadCommonPasswords(cf)
          /\ dictionaryWords' = loadDictionaryWords(df)
    /\ pc' = "ready"
    /\ UNCHANGED <<entry, password, verdict, entropy, classical, quantum, modern,
                   shown, error, fmtIn, fmtOut>>

\* app.py: the text input changes (by one more piece); the page reruns with the
\* button not clicked, so no analysis is rendered
AppType ==
    /\ entry = "app"
    /\ pc = "ready"
    /\ \E t \in Tokens :
          /\ (password \o t) \in Passwords
          /\ password' = password \o t
    /\ NoOutput
    /\ UNCHANGED <<entry, pc, commonPasswords, dictionaryWords, fmtIn, fmtOut>>

\* app.py: the button is clicked; the page reruns with the button clicked
AppClickAnalyze ==
    /\ entry = "app"
    /\ pc = "ready"
    /\ IF password # <<>>
       THEN \E r \in {AppAnalysis(password, commonPasswords, dictionaryWords)} :
                /\ verdict' = r.verdict
                /\ entropy' = r.entropy
                /\ classical' = r.classical
                /\ quantum' = r.quantum
                /\ modern' = r.modern
                /\ shown' = r.shown
                /\ error' = r.error
       ELSE NoOutput
    /\ UNCHANGED <<entry, pc, commonPasswords, dictionaryWords, password, fmtIn, fmtOut>>

\* main.py __main__: the two load calls
MainLoadLists ==
    /\ entry = "main"
    /\ pc = "start"
    /\ \E cf \in CommonFiles, df \in DictFiles :
          /\ commonPasswords' = loadCommonPasswords(cf)
          /\ dictionaryWords' = loadDictionaryWords(df)
    /\ pc' = "loaded"
    /\ UNCHANGED <<entry, password, verdict, entropy, classical, quantum, modern,
                   shown, error, fmtIn, fmtOut>>

\* main.py __main__: password = input(...)
MainInput ==
    /\ entry = "main"
    /\ pc = "loaded"
    /\ password' \in Passwords
    /\ pc' = "read"
    /\ UNCHANGED <<entry, commonPasswords, dictionaryWords, verdict, entropy, classical,
                   quantum, modern, shown, error, fmtIn, fmtOut>>

\* main.py __main__: analyze(password, commonPasswords, dictionaryWords) is a call
\* with three arguments of a function of four: TypeError, before its body runs
MainAnalyze ==
    /\ entry = "main"
    /\ pc = "read"
    /\ error' = "TypeError"
    /\ pc' = "exited"
    /\ UNCHANGED <<entry, commonPasswords, dictionaryWords, password, verdict, entropy,
                   classical, quantum, modern, shown, fmtIn, fmtOut>>

Next ==
    \/ AppLoadLists
    \/ AppType
    \/ AppClickAnalyze
    \/ MainLoadLists
    \/ MainInput
    \/ MainAnalyze

Spec == Init /\ [][Next]_vars

-----------------------------------------------------------------------------
(* timeFormat called on its own, on durations m * 10^e *)

MaxMantissa == 400
MaxDecimals == 3
MaxExponent == 10

InitFmt ==
    /\ entry = "call"
    /\ pc = "call"
    /\ commonPasswords = {}
    /\ dictionaryWords = {}
    /\ password = <<>>
    /\ verdict = "none"
    /\ entropy = Unset
    /\ classical = Unset
    /\ quantum = Unset
    /\ modern = Unset
    /\ shown = <<>>
    /\ error = "none"
    /\ \E m \in 0..MaxMantissa, e \in (0 - MaxDecimals)..MaxExponent : fmtIn = Canon(m, e)
    /\ fmtOut = Unset

FormatCall ==
    /\ pc = "call"
    /\ fmtOut' = timeFormat(fmtIn)
    /\ pc' = "returned"
    /\ UNCHANGED <<entry, commonPasswords, dictionaryWords, password, verdict, entropy,
                   classical, quantum, modern, shown, error, fmtIn>>

NextFmt == FormatCall

SpecFmt == InitFmt /\ [][NextFmt]_vars

-----------------------------------------------------------------------------
(* Properties *)

\* an analysis of the password has run in the page
Analysed == entry = "app" /\ verdict # "none"
\* ... and got as far as the three crack times
Estimated == Analysed /\ modern # Unset

Normalized == normalizeLeetspeak(password)

\* C1: every analysis that computes the crack times gets three non-negative floats,
\* modernCrackTime included, and a formatted string for each of them.
C1_CrackTimesAreNumbers ==
    (Analysed /\ entropy # Unset) =>
        /\ IsFloat(classical) /\ classical.m >= 0
        /\ IsFloat(quantum) /\ quantum.m >= 0
        /\ IsFloat(modern) /\ modern.m >= 0
        /\ Len(shown) = 3
        /\ error = "none"

\* C2: for a password of charset size 0, getEntropy returns the zero-entropy result
\* (charsetSize 0, hence 0 bits) and no ValueError reaches the caller.
C2_ZeroCharsetZeroEntropy ==
    (Analysed /\ getCharsetSize(password) = 0) =>
        /\ error # "ValueError"
        /\ entropy # Unset
        /\ entropy.charsetSize = 0

\* C3: a password that is itself an entry of the common-password set is classified
\* CommonPassword and its modern crack time is 0.5 seconds.
C3_CorpusEntryIsCommon ==
    (Estimated /\ password \in commonPasswords) =>
        /\ isCommonPassword(password, commonPasswords)
        /\ verdict = "CommonPassword"
        /\ modern = InstantSeconds

\* C4: the run of main.py, once it has ended, has raised no error and has produced the
\* verdict and the three formatted crack times.
C4_MainRunCompletes ==
    (entry = "main" /\ pc = "exited") =>
        /\ error = "none"
        /\ verdict # "none"
        /\ Len(shown) = 3

\* C5: the modern crack time is the result of the first branch, in source order, whose
\* condition holds; a year-like token wins over the two shape branches and the fallback.
C5_FirstBranchWins ==
    Estimated =>
        LET c1 == Normalized \in commonPasswords
            c2 == containsDictionaryWord(password, dictionaryWords)
            c3 == WeakKeywordMatch(Normalized)
            c4 == YearMatch(password)
            c5 == LettersDigitsMatch(Normalized)
            c6 == WordWordNumberMatch(password)
        IN  /\ c1 => modern = InstantSeconds
            /\ (~c1 /\ c2) => modern \in {FromInt(DictSuffixSeconds), FromInt(DictSeconds)}
            /\ (~c1 /\ ~c2 /\ c3) => modern = NoneVal
            /\ (~c1 /\ ~c2 /\ ~c3 /\ c4) => modern = FromInt(YearSeconds)
            /\ (~c1 /\ ~c2 /\ ~c3 /\ ~c4 /\ c5) => modern = FromInt(LettersDigitsSeconds)
            /\ (~c1 /\ ~c2 /\ ~c3 /\ ~c4 /\ ~c5 /\ c6) =>
                   modern = FromInt(WordWordNumberSeconds)
            /\ (~c1 /\ ~c2 /\ ~c3 /\ ~c4 /\ ~c5 /\ ~c6) =>
                   modern = FDiv(FPow(getCharsetSize(password), Len(password)), Canon(1, 10))

\* C5 witness: a password with a year token that also has the letters+digits shape
\* was given 45 seconds.
C5_Witness ==
    /\ Estimated
    /\ YearMatch(password)
    /\ LettersDigitsMatch(Normalized)
    /\ modern = FromInt(YearSeconds)

\* C6: a password that is not common but contains a dictionary word gets 30 seconds if
\* it ends in "123", in 1-4 digits or in a run of characters of the special-character
\* class of getCharsetSize, and 90 seconds otherwise.
C6_SuffixDecidesBucket ==
    (Estimated /\ Normalized \notin commonPasswords
               /\ containsDictionaryWord(password, dictionaryWords)) =>
        modern = IF \/ EndsWith(password, <<"1","2","3">>)
                    \/ EndsWithRun(password, DigitChars, 1, 4)
                    \/ EndsWithRun(password, SpecialChars, 1, Len(password))
                 THEN FromInt(DictSuffixSeconds)
                 ELSE FromInt(DictSeconds)

\* the characters the normaliser replaces
LeetChars == {"0","1","3","4","5","7","@","$"}

\* C7: normalizeLeetspeak is idempotent, and its output holds no replaced character
\* and no uppercase letter (stated of every password the page has normalised, and of
\* that password followed by each replaced character, by an uppercase letter and by a
\* character the normaliser leaves alone).
C7_NormalizeIdempotent ==
    Analysed =>
        /\ normalizeLeetspeak(Normalized) = Normalized
        /\ \A i \in DOMAIN Normalized : Normalized[i] \notin (LeetChars \cup UpperChars)
        /\ \A c \in LeetChars \cup {"A", "Z", "o", "9", "~", " "} :
               LET n == normalizeLeetspeak(Append(password, c))
               IN  /\ normalizeLeetspeak(n) = n
                   /\ n[Len(n)] \notin (LeetChars \cup UpperChars)

\* C7 witness: an analysed password holding a digit, a symbol and an uppercase letter
\* that the normaliser changes.
C7_Witness ==
    /\ Analysed
    /\ HasClass(password, {"0"}) /\ HasClass(password, {"$"})
    /\ HasClass(password, UpperChars)
    /\ Normalized # password

RECURSIVE Remaining(_, _)
\* s divided successively by the first i factors of the chain
Remaining(s, i) ==
    IF i = 0 THEN s ELSE FDiv(Remaining(s, i - 1), FromInt(factors[i]))

AllChars == LowerChars \cup UpperChars \cup DigitChars \cup SpecialChars \cup {" "}

\* C9: appending a character never lowers the charset size, and the size found by the
\* analysis is the sum of the weights of exactly the classes present (stated of the empty
\* password and of every password the page has analysed).
C9_CharsetMonotoneSum ==
    (Analysed \/ password = <<>>) =>
    /\ \A c \in AllChars :
           getCharsetSize(Append(password, c)) >= getCharsetSize(password)
    /\ LET classes == <<LowerChars, UpperChars, DigitChars, SpecialChars>>
           weights == <<26, 26, 10, 32>>
           w(k) == IF \E i \in DOMAIN password : password[i] \in classes[k]
                   THEN weights[k] ELSE 0
           sum == w(1) + w(2) + w(3) + w(4)
       IN  /\ getCharsetSize(password) = sum
           /\ (Analysed /\ entropy # Unset) => entropy.charsetSize = sum
           /\ (\A k \in 1..4 : w(k) > 0) => getCharsetSize(password) = 94
           /\ (\A k \in 1..4 : w(k) = 0) => getCharsetSize(password) = 0

\* C9 witness: an analysed password with several lowercase letters and all four
\* classes has size 94.
C9_Witness ==
    /\ Analysed
    /\ Cardinality({i \in DOMAIN password : password[i] \in LowerChars}) >= 2
    /\ entropy # Unset
    /\ entropy.charsetSize = 94

\* C10: the verdict shown and the branch modernCrackTime returns through agree, and
\* exactly one verdict is shown per analysis.
C10_VerdictAgreesWithModern ==
    Analysed =>
        LET branch == modernBranch(password, commonPasswords, dictionaryWords)
        IN  /\ verdict \in {"CommonPassword", "ContainsDictionaryWord", "NoObviousPattern"}
            /\ verdict = "CommonPassword" <=> branch = 1
            /\ verdict = "ContainsDictionaryWord" <=> branch = 2
            /\ verdict = "NoObviousPattern" <=> branch \in 3..7
            /\ analyzeVerdict(password, commonPasswords, dictionaryWords) = verdict
            /\ Estimated =>
                 /\ verdict = "CommonPassword" <=> modern = InstantSeconds
                 /\ verdict = "ContainsDictionaryWord"
                        <=> modern \in {FromInt(DictSuffixSeconds), FromInt(DictSeconds)}

\* C10 witness: a leetspeak spelling of a dictionary word was given the dictionary
\* verdict and the 30-second bucket.
C10_Witness ==
    /\ Estimated
    /\ verdict = "ContainsDictionaryWord"
    /\ ~IsSubstring(<<"w","o","r","d">>, password)
    /\ modern = FromInt(DictSuffixSeconds)

====
